---- MODULE Spec2Model ----
(***************************************************************************)
(* Model of server/native_crypto.cpp: the run-length encoder               *)
(* ultra_compress and the AES-256-GCM wrapper ultra_encrypt, each executed *)
(* step by step by one or more calling threads.                            *)
(***************************************************************************)
EXTENDS Integers, Sequences, FiniteSets, TLC

\* ------------------------------------------------------------------ bounds

\* Longest input of the exhaustive short inputs (over Alphabet).
MaxLen == 4
\* Long runs with context are RunCap-1 .. RunCap+MaxExtra copies of a byte.
MaxExtra == 2
\* Longest plaintext handed to ultra_encrypt.
MaxPlain == 2
\* Number of threads that may call into the library.
NumThreads == 2
\* Longest input / plaintext of a call in the concurrent specification.
ConcMaxLen == 2

\* --------------------------------------------------------- program constants

\* 0xFF, the escape marker written in front of a (byte, count) pair.
Escape == 255
\* The run counter stops growing at 255 (count < 255).
RunCap == 255
\* AES-GCM authentication tag size in bytes.
TagLen == 16

Byte == 0 .. 255
\* Byte values of the exhaustive short inputs: the initial value of prev,
\* two ordinary letters, and the escape marker.
Alphabet == {0, 65, 66, Escape}
\* A cell of an output buffer no call has written yet.
NoByte == -1
\* A local variable declared without an initialiser and not yet assigned.
NoVal == -2

Procs == 1 .. NumThreads

Min(a, b) == IF a < b THEN a ELSE b

\* All sequences over S of length at most n.
SeqsUpTo(S, n) == UNION {[1 .. k -> S] : k \in 0 .. n}

\* n copies of b.
Copies(b, n) == [k \in 1 .. n |-> b]

\* ------------------------------------------------------------ C conversions

\* Storing an int into a char keeps the low 8 bits.
ToByte(v) == v % 256

\* buf[idx] = v on a caller-allocated array whose cells beyond the highest
\* written index are not represented (idx is 0-based as in the source).
Put(buf, idx, v) ==
    IF idx < Len(buf)
    THEN [buf EXCEPT ![idx + 1] = v]
    ELSE buf \o Copies(NoByte, idx - Len(buf)) \o <<v>>

\* ------------------------------------------------------------------- state

VARIABLES
    pc,          \* per thread: where the thread is inside the call it makes
    fn,          \* per thread: the function of the current (or last) call
    data,        \* per thread: the input bytes (data / plaintext)
    key,         \* per thread: the key argument of ultra_encrypt
    iv,          \* per thread: the iv argument of ultra_encrypt
    locals,      \* per stack frame: the local variables of the running call
    compressed,  \* per thread: the output buffer of ultra_compress
    ciphertext,  \* per thread: the output buffer of ultra_encrypt
    ret,         \* per thread: the value returned by the last call
    calls,       \* per thread: the OpenSSL calls the current call has made
    nlive        \* number of cipher contexts allocated and not yet freed

vars == <<pc, fn, data, key, iv, locals, compressed, ciphertext, ret, calls,
          nlive>>

\* Variant: the locals declared static, one copy for all threads.
SharedFrame(t) == 1
\* The locals of both functions have automatic storage: every invocation
\* owns the frame of the thread that runs it.
Frame(t) == t

\* A frame before the function's declarations have run. Every local of
\* ultra_compress is declared with an initialiser; len and ciphertext_len of
\* ultra_encrypt are not.
NoFrame ==
    [compressed_len |-> 0, prev |-> 0, count |-> 0, i |-> 0,
     ctx |-> "none", len |-> NoVal, ciphertext_len |-> NoVal]

Init ==
    /\ pc = [t \in Procs |-> "idle"]
    /\ fn = [t \in Procs |-> "none"]
    /\ data = [t \in Procs |-> <<>>]
    /\ key = [t \in Procs |-> 0]
    /\ iv = [t \in Procs |-> 0]
    /\ locals = [t \in Procs |-> NoFrame]
    /\ compressed = [t \in Procs |-> <<>>]
    /\ ciphertext = [t \in Procs |-> <<>>]
    /\ ret = [t \in Procs |-> NoVal]
    /\ calls = [t \in Procs |-> <<>>]
    /\ nlive = 0

L(t) == locals[Frame(t)]

\* ---------------------------------------------------------- ultra_compress

\* char prev = 0;
InitPrev == 0
\* Variant: the run counter started at 0.
InitCountZero == 1 - 1
\* int count = 1;
InitCount == 1

\* int compressed_len = 0; char prev = 0; int count = 1; int i = 0;
CompressEntry ==
    [NoFrame EXCEPT !.compressed_len = 0, !.prev = InitPrev,
                    !.count = InitCount, !.i = 0]

\* Variant: the run extended without the cap on count.
ExtendsRunUncapped(b, prev, count) == b = prev
\* data[i] == prev && count < 255
ExtendsRun(b, prev, count) == b = prev /\ count < RunCap

\* compressed[n++] = 0xFF; compressed[n++] = prev; compressed[n++] = count;
EmitRun(buf, n, prev, count) ==
    [buf |-> Put(Put(Put(buf, n, ToByte(Escape)), n + 1, prev),
                 n + 2, ToByte(count)),
     n |-> n + 3]

\* Variant: the literal stored without advancing compressed_len.
EmitLiteralNoAdvance(buf, n, prev) == [buf |-> Put(buf, n, prev), n |-> n]
\* compressed[n++] = prev;
EmitLiteral(buf, n, prev) == [buf |-> Put(buf, n, prev), n |-> n + 1]

\* The flush inside the loop: a run, a literal, or nothing when prev is 0.
LoopFlush(buf, n, prev, count) ==
    IF count > 1 THEN EmitRun(buf, n, prev, count)
    ELSE IF prev # 0 THEN EmitLiteral(buf, n, prev)
    ELSE [buf |-> buf, n |-> n]

\* The flush after the loop: a run or a literal, whatever prev is.
FinalFlush(buf, n, prev, count) ==
    IF count > 1 THEN EmitRun(buf, n, prev, count)
    ELSE EmitLiteral(buf, n, prev)

\* A thread outside a call enters ultra_compress(S, Len(S), compressed) with
\* an output buffer it has not written.
compress_call(t, S) ==
    /\ pc[t] \in {"idle", "done"}
    /\ pc' = [pc EXCEPT ![t] = "c_loop"]
    /\ fn' = [fn EXCEPT ![t] = "compress"]
    /\ data' = [data EXCEPT ![t] = S]
    /\ locals' = [locals EXCEPT ![Frame(t)] = CompressEntry]
    /\ compressed' = [compressed EXCEPT ![t] = <<>>]
    /\ ciphertext' = [ciphertext EXCEPT ![t] = <<>>]
    /\ ret' = [ret EXCEPT ![t] = NoVal]
    /\ calls' = [calls EXCEPT ![t] = <<>>]
    /\ key' = [key EXCEPT ![t] = 0]
    /\ iv' = [iv EXCEPT ![t] = 0]
    /\ UNCHANGED nlive

\* One iteration of the for loop.
compress_loop(t) ==
    /\ pc[t] = "c_loop"
    /\ L(t).i < Len(data[t])
    /\ LET f == L(t)
           b == data[t][f.i + 1]
       IN  IF ExtendsRun(b, f.prev, f.count)
           THEN /\ locals' = [locals EXCEPT ![Frame(t)] =
                       [f EXCEPT !.count = f.count + 1, !.i = f.i + 1]]
                /\ UNCHANGED compressed
           ELSE LET w == LoopFlush(compressed[t], f.compressed_len,
                                   f.prev, f.count)
                IN  /\ locals' = [locals EXCEPT ![Frame(t)] =
                           [f EXCEPT !.compressed_len = w.n, !.prev = b,
                                     !.count = 1, !.i = f.i + 1]]
                    /\ compressed' = [compressed EXCEPT ![t] = w.buf]
    /\ UNCHANGED <<pc, fn, data, key, iv, ciphertext, ret, calls, nlive>>

\* The loop has ended: flush the pending run and return compressed_len.
compress_return(t) ==
    /\ pc[t] = "c_loop"
    /\ L(t).i >= Len(data[t])
    /\ LET f == L(t)
           w == FinalFlush(compressed[t], f.compressed_len, f.prev, f.count)
       IN  /\ locals' = [locals EXCEPT ![Frame(t)] =
                  [f EXCEPT !.compressed_len = w.n]]
           /\ compressed' = [compressed EXCEPT ![t] = w.buf]
           /\ ret' = [ret EXCEPT ![t] = w.n]
    /\ pc' = [pc EXCEPT ![t] = "done"]
    /\ UNCHANGED <<fn, data, key, iv, ciphertext, calls, nlive>>

\* ----------------------------------------------------------- ultra_encrypt

\* What AES-256-GCM computes, as uninterpreted terms: the ciphertext byte at
\* position pos (GCM is a counter mode: one output byte per input byte) and
\* the authentication tag over the whole message.
CtByte(k, v, pos, p) == <<"ct", k, v, pos, p>>
Ciphertext(pt, k, v) == [pos \in 1 .. Len(pt) |-> CtByte(k, v, pos, pt[pos])]
Tag(pt, k, v) == Copies(<<"tag", k, v, pt>>, TagLen)

\* EVP_EncryptUpdate under GCM: writes one byte per plaintext byte at out and
\* sets *outl to their number.
EncryptUpdate(buf, pt, k, v) ==
    [buf |-> Ciphertext(pt, k, v) \o SubSeq(buf, Len(pt) + 1, Len(buf)),
     outl |-> Len(pt)]

\* EVP_EncryptFinal_ex under GCM, handed out = buf + off: the tag is computed
\* into the context; nothing is written at out and *outl is set to 0.
EncryptFinal(buf, off) == [buf |-> buf, outl |-> 0]

\* EVP_CIPHER_CTX_free on a context in state c.
CtxAfterFree(c) ==
    CASE c = "live" -> "freed"
      [] c = "freed" -> "double_freed"
      [] OTHER -> c

\* Variant: the path out of a failing EncryptUpdate returns without the free.
FreesOnExitLeakUpdate(step) == step # "update"
\* Every exit path taken after EVP_CIPHER_CTX_new succeeded calls
\* EVP_CIPHER_CTX_free: after a failing init, update or final, and on success.
FreesOnExit(step) == step \in {"init", "update", "final", "success"}

\* The value every failing path returns.
ErrorValue == -1

\* OpenSSL's EVP calls return 1 for success and 0 for failure.
RetCodes == {0, 1}

\* Variant: a return code tested with < 0.
FailedIfNegative(rc) == rc < 0
\* The test the code applies to each return code: rc != 1.
Failed(rc) == rc # 1

\* One entry of the log of OpenSSL calls: the function, the state of the
\* context it was handed, and what it returned.
Call(name, c, rc) == [fn |-> name, ctx |-> c, rc |-> rc]

\* Leaving ultra_encrypt with value r after `step` failed (or "success").
Exit(t, step, r, log) ==
    LET free == FreesOnExit(step)
        f == L(t)
    IN  /\ locals' = [locals EXCEPT ![Frame(t)] =
               [f EXCEPT !.ctx = IF free THEN CtxAfterFree(f.ctx) ELSE f.ctx]]
        /\ nlive' = IF free /\ f.ctx = "live" THEN nlive - 1 ELSE nlive
        /\ calls' = [calls EXCEPT ![t] =
               IF free THEN Append(log, Call("free", f.ctx, 1)) ELSE log]
        /\ ret' = [ret EXCEPT ![t] = r]
        /\ pc' = [pc EXCEPT ![t] = "done"]

\* A thread outside a call enters ultra_encrypt(pt, Len(pt), k, v, ciphertext)
\* with an output buffer it has not written.
encrypt_call(t, pt, k, v) ==
    /\ pc[t] \in {"idle", "done"}
    /\ pc' = [pc EXCEPT ![t] = "e_new"]
    /\ fn' = [fn EXCEPT ![t] = "encrypt"]
    /\ data' = [data EXCEPT ![t] = pt]
    /\ key' = [key EXCEPT ![t] = k]
    /\ iv' = [iv EXCEPT ![t] = v]
    /\ locals' = [locals EXCEPT ![Frame(t)] = NoFrame]
    /\ compressed' = [compressed EXCEPT ![t] = <<>>]
    /\ ciphertext' = [ciphertext EXCEPT ![t] = <<>>]
    /\ ret' = [ret EXCEPT ![t] = NoVal]
    /\ calls' = [calls EXCEPT ![t] = <<>>]
    /\ UNCHANGED nlive

\* ctx = EVP_CIPHER_CTX_new(); if (!ctx) return -1;
encrypt_new(t, ok) ==
    /\ pc[t] = "e_new"
    /\ calls' = [calls EXCEPT ![t] =
           Append(@, Call("new", "none", IF ok THEN 1 ELSE 0))]
    /\ IF ok
       THEN /\ locals' = [locals EXCEPT ![Frame(t)] = [L(t) EXCEPT !.ctx = "live"]]
            /\ nlive' = nlive + 1
            /\ pc' = [pc EXCEPT ![t] = "e_init"]
            /\ UNCHANGED ret
       ELSE /\ locals' = [locals EXCEPT ![Frame(t)] = [L(t) EXCEPT !.ctx = "null"]]
            /\ ret' = [ret EXCEPT ![t] = ErrorValue]
            /\ pc' = [pc EXCEPT ![t] = "done"]
            /\ UNCHANGED nlive
    /\ UNCHANGED <<fn, data, key, iv, compressed, ciphertext>>

\* if (EVP_EncryptInit_ex(ctx, EVP_aes_256_gcm(), NULL, key, iv) != 1) {...}
encrypt_init(t, rc) ==
    /\ pc[t] = "e_init"
    /\ LET log == Append(calls[t], Call("init", L(t).ctx, rc))
       IN  IF ~Failed(rc)
           THEN /\ calls' = [calls EXCEPT ![t] = log]
                /\ pc' = [pc EXCEPT ![t] = "e_update"]
                /\ UNCHANGED <<locals, ret, nlive>>
           ELSE Exit(t, "init", ErrorValue, log)
    /\ UNCHANGED <<fn, data, key, iv, compressed, ciphertext>>

\* if (EVP_EncryptUpdate(ctx, ciphertext, &len, plaintext, plaintext_len) != 1)
\* {...} ciphertext_len = len;
encrypt_update(t, rc) ==
    /\ pc[t] = "e_update"
    /\ LET log == Append(calls[t], Call("update", L(t).ctx, rc))
           w == EncryptUpdate(ciphertext[t], data[t], key[t], iv[t])
       IN  IF ~Failed(rc)
           THEN /\ calls' = [calls EXCEPT ![t] = log]
                /\ ciphertext' = [ciphertext EXCEPT ![t] = w.buf]
                /\ locals' = [locals EXCEPT ![Frame(t)] =
                       [L(t) EXCEPT !.len = w.outl, !.ciphertext_len = w.outl]]
                /\ pc' = [pc EXCEPT ![t] = "e_final"]
                /\ UNCHANGED <<ret, nlive>>
           ELSE /\ Exit(t, "update", ErrorValue, log)
                /\ UNCHANGED ciphertext
    /\ UNCHANGED <<fn, data, key, iv, compressed>>

\* if (EVP_EncryptFinal_ex(ctx, ciphertext + len, &len) != 1) {...}
\* ciphertext_len += len;
encrypt_final(t, rc) ==
    /\ pc[t] = "e_final"
    /\ LET log == Append(calls[t], Call("final", L(t).ctx, rc))
           f == L(t)
           w == EncryptFinal(ciphertext[t], f.len)
       IN  IF ~Failed(rc)
           THEN /\ calls' = [calls EXCEPT ![t] = log]
                /\ ciphertext' = [ciphertext EXCEPT ![t] = w.buf]
                /\ locals' = [locals EXCEPT ![Frame(t)] =
                       [f EXCEPT !.len = w.outl,
                                 !.ciphertext_len = f.ciphertext_len + w.outl]]
                /\ pc' = [pc EXCEPT ![t] = "e_free"]
                /\ UNCHANGED <<ret, nlive>>
           ELSE /\ Exit(t, "final", ErrorValue, log)
                /\ UNCHANGED ciphertext
    /\ UNCHANGED <<fn, data, key, iv, compressed>>

\* EVP_CIPHER_CTX_free(ctx); return ciphertext_len;
encrypt_return(t) ==
    /\ pc[t] = "e_free"
    /\ Exit(t, "success", L(t).ciphertext_len, calls[t])
    /\ UNCHANGED <<fn, data, key, iv, compressed, ciphertext>>

\* ------------------------------------------------- the functions as a whole

\* ultra_compress run from its first statement to its return, alone.
RECURSIVE CompressFrom(_, _, _, _, _, _)
CompressFrom(S, i, prev, count, buf, n) ==
    IF i < Len(S)
    THEN LET b == S[i + 1]
         IN  IF ExtendsRun(b, prev, count)
             THEN CompressFrom(S, i + 1, prev, count + 1, buf, n)
             ELSE LET w == LoopFlush(buf, n, prev, count)
                  IN  CompressFrom(S, i + 1, b, 1, w.buf, w.n)
    ELSE LET w == FinalFlush(buf, n, prev, count)
         IN  [ret |-> w.n, out |-> w.buf]

ultra_compress(S) == CompressFrom(S, 0, InitPrev, InitCount, <<>>, 0)

\* ultra_encrypt run from its first statement to its return, alone, given
\* what OpenSSL answers: ctx is whether EVP_CIPHER_CTX_new returns a context,
\* r1, r2, r3 the return codes of EncryptInit, EncryptUpdate, EncryptFinal.
ultra_encrypt(pt, k, v, ctx, r1, r2, r3) ==
    IF ~ctx \/ Failed(r1) \/ Failed(r2)
    THEN [ret |-> ErrorValue, out |-> <<>>]
    ELSE LET u == EncryptUpdate(<<>>, pt, k, v)
             f == EncryptFinal(u.buf, u.outl)
         IN  IF Failed(r3)
             THEN [ret |-> ErrorValue, out |-> u.buf]
             ELSE [ret |-> u.outl + f.outl,
                   out |-> f.buf]

\* ------------------------------------------------------------------ inputs

\* Inputs of ultra_compress: every sequence over Alphabet up to MaxLen, and
\* runs of an Alphabet byte around the cap of the run counter, between an
\* optional first and last byte.
ShortInputs == SeqsUpTo(Alphabet, MaxLen)
LongInputs ==
    {pre \o Copies(b, n) \o post :
        b \in Alphabet, n \in (RunCap - 1) .. (RunCap + MaxExtra),
        pre \in {<<>>, <<66>>}, post \in {<<>>, <<0>>, <<65>>}}
Inputs == ShortInputs \cup LongInputs

\* Inputs of ultra_encrypt.
PlainBytes == {7, 9}
Plaintexts == SeqsUpTo(PlainBytes, MaxPlain)
Keys == {1, 2}

\* Inputs of the calls of the concurrent specification.
ConcInputs == SeqsUpTo({65}, ConcMaxLen)
ConcPlaintexts == SeqsUpTo({7}, ConcMaxLen)
ConcKeys == {1}

\* ---------------------------------------------------------- specifications

ThreadNext(t, CI, PI, KI) ==
    \/ \E S \in CI : compress_call(t, S)
    \/ compress_loop(t)
    \/ compress_return(t)
    \/ \E pt \in PI, k \in KI, v \in KI : encrypt_call(t, pt, k, v)
    \/ \E ok \in BOOLEAN : encrypt_new(t, ok)
    \/ \E rc \in RetCodes : encrypt_init(t, rc)
    \/ \E rc \in RetCodes : encrypt_update(t, rc)
    \/ \E rc \in RetCodes : encrypt_final(t, rc)
    \/ encrypt_return(t)

\* One thread makes any sequence of calls.
Next == \E t \in {1} : ThreadNext(t, Inputs, Plaintexts, Keys)
Spec == Init /\ [][Next]_vars

\* Every thread makes any sequence of calls, their steps interleaved.
NextConc == \E t \in Procs : ThreadNext(t, ConcInputs, ConcPlaintexts, ConcKeys)
SpecConc == Init /\ [][NextConc]_vars

\* ----------------------------------------------------------------- decoder

\* The decoder of the specification: 0xFF is followed by a (byte, count) pair
\* and expands to count copies of byte; any other byte is a literal. A marker
\* without a complete pair, or with count 0, is a malformed stream.
RECURSIVE DecodeFrom(_, _, _)
DecodeFrom(s, k, acc) ==
    IF k > Len(s) THEN [ok |-> TRUE, bytes |-> acc]
    ELSE IF s[k] = Escape
    THEN IF k + 2 > Len(s) \/ s[k + 2] = 0
         THEN [ok |-> FALSE, bytes |-> acc]
         ELSE DecodeFrom(s, k + 3, acc \o Copies(s[k + 1], s[k + 2]))
    ELSE DecodeFrom(s, k + 1, Append(acc, s[k]))

decompress(s) == DecodeFrom(s, 1, <<>>)

\* The first L bytes of the output buffer of thread t, L the returned value.
Written(t) == SubSeq(compressed[t], 1, ret[t])

CompressDone(t) == pc[t] = "done" /\ fn[t] = "compress"

\* ----------------------------------------------------------------- claims

\* C1: round trip. Decoding the first L bytes ultra_compress wrote, L its
\* return value, yields exactly the input, for every input.
C1_RoundTrip ==
    \A t \in Procs :
        CompressDone(t) =>
            LET r == decompress(Written(t)) IN r.ok /\ r.bytes = data[t]

\* C2: the literal-byte path never emits 0xFF. Every step of ultra_compress
\* that writes one single byte (a literal, in the loop or in the final flush)
\* writes a byte other than 0xFF.
C2_LiteralNeverEscape ==
    [][\A t \in Procs :
          (pc[t] = "c_loop" /\ Len(compressed'[t]) = Len(compressed[t]) + 1)
              => compressed'[t][Len(compressed'[t])] # Escape]_vars

\* C6: run-length cap boundary. 255 copies of any byte b compress to the one
\* triple [0xFF, b, 255] (returning 3), 256 copies to the two triples
\* [0xFF, b, 255] [0xFF, b, 1] (returning 6).
C6_CapBoundary ==
    \A t \in Procs : \A b \in Byte :
        CompressDone(t) =>
            /\ data[t] = Copies(b, RunCap) =>
                   ret[t] = 3 /\ Written(t) = <<Escape, b, RunCap>>
            /\ data[t] = Copies(b, RunCap + 1) =>
                   ret[t] = 6 /\ Written(t) = <<Escape, b, RunCap, Escape, b, 1>>

\* Length of the run of zero bytes S starts with.
LeadingZeros(S) ==
    IF \A j \in 1 .. Len(S) : S[j] = 0 THEN Len(S)
    ELSE (CHOOSE j \in 1 .. Len(S) :
              S[j] # 0 /\ \A m \in 1 .. j - 1 : S[m] = 0) - 1

\* C8, as stated: an input whose first byte is 0x00 decodes, after
\* compression, to the input without its leading 0x00.
C8_LeadingZeroDropped ==
    \A t \in Procs :
        (CompressDone(t) /\ data[t] # <<>> /\ data[t][1] = 0) =>
            LET r == decompress(Written(t)) IN r.ok /\ r.bytes = Tail(data[t])

\* C8, amended: prev = 0 and count = 1 make the first byte 0x00 extend a run
\* of one 0x00 byte that was never read. For an input that starts with k >= 1
\* zero bytes the output starts with the triple [0xFF, 0x00, min(k + 1, 255)],
\* which decodes to min(k + 1, 255) zero bytes: a zero is added, none dropped.
C8_LeadingZeroCounted ==
    \A t \in Procs :
        (CompressDone(t) /\ data[t] # <<>> /\ data[t][1] = 0) =>
            LET m == Min(LeadingZeros(data[t]) + 1, RunCap)
                first == SubSeq(Written(t), 1, 3)
            IN  /\ ret[t] >= 3
                /\ first = <<Escape, 0, m>>
                /\ decompress(first) = [ok |-> TRUE, bytes |-> Copies(0, m)]

\* C8 witness: a call on [0x00, 0x41] has returned [0xFF, 0x00, 2, 0x41].
C8_Witness ==
    \E t \in Procs :
        CompressDone(t) /\ data[t] = <<0, 65>> /\ Written(t) = <<Escape, 0, 2, 65>>

\* The encoding C9 describes: the maximal runs of S, each split left to right
\* into chunks of at most 255, a chunk of 2 or more written as
\* [0xFF, byte, count] and a chunk of 1 as the byte itself.
\* Length of the maximal run of S that starts at position k.
RunLenAt(S, k) ==
    LET last == CHOOSE j \in k .. Len(S) :
                    /\ \A m \in k .. j : S[m] = S[k]
                    /\ j = Len(S) \/ S[j + 1] # S[k]
    IN  last - k + 1

RECURSIVE Chunks(_, _)
Chunks(b, n) ==
    IF n = 0 THEN <<>>
    ELSE LET c == Min(n, 255)
         IN  (IF c >= 2 THEN <<255, b, c>> ELSE <<b>>) \o Chunks(b, n - c)

RECURSIVE RunEncoding(_, _)
RunEncoding(S, k) ==
    IF k > Len(S) THEN <<>>
    ELSE LET n == RunLenAt(S, k)
         IN  Chunks(S[k], n) \o RunEncoding(S, k + n)

\* C9: safe domain. For a non-empty input without 0x00 and without 0xFF the
\* output is the run encoding of the input, and decodes to the input.
C9_SafeDomain ==
    \A t \in Procs :
        (/\ CompressDone(t)
         /\ data[t] # <<>>
         /\ \A k \in 1 .. Len(data[t]) : data[t][k] \notin {0, 255}) =>
            /\ compressed[t] = RunEncoding(data[t], 1)
            /\ ret[t] = Len(compressed[t])
            /\ decompress(Written(t)) = [ok |-> TRUE, bytes |-> data[t]]

\* C9 witness: the scenario [0x41,0x41,0x41,0x42] -> [0xFF,0x41,3,0x42].
C9_Witness ==
    \E t \in Procs :
        /\ CompressDone(t)
        /\ data[t] = <<65, 65, 65, 66>>
        /\ Written(t) = <<255, 65, 3, 66>>

\* The size C10 gives for an input of n bytes.
SizeBound(n) == 3 * ((n + 1) \div 2) + ((n + 1) % 2)

\* C10: output size. Every step of ultra_compress leaves the cells written so
\* far as they were and writes the next cells in order, so that the cells
\* written are exactly 0 .. compressed_len - 1; the value returned is their
\* number L, and 1 <= L <= 3 * ((n + 1) div 2) + ((n + 1) mod 2).
C10_OutputBound ==
    [][\A t \in Procs :
          pc[t] = "c_loop" =>
              /\ SubSeq(compressed'[t], 1, Len(compressed[t])) = compressed[t]
              /\ Len(compressed'[t]) = locals'[Frame(t)].compressed_len
              /\ \A k \in 1 .. Len(compressed'[t]) : compressed'[t][k] # NoByte
              /\ pc'[t] = "done" =>
                     /\ ret'[t] = Len(compressed'[t])
                     /\ 1 <= ret'[t]
                     /\ ret'[t] <= SizeBound(Len(data[t]))]_vars

\* C10 witness: a call on three bytes has returned the bound, 6.
C10_Witness ==
    \E t \in Procs : CompressDone(t) /\ Len(data[t]) = 3 /\ ret[t] = 6

\* ------------------------------------------------------ claims on encryption

EncryptDone(t) == pc[t] = "done" /\ fn[t] = "encrypt"

IsStep(e) == e.fn # "free"
IsFree(e) == e.fn = "free"

\* The four steps of ultra_encrypt thread t has attempted, in order.
Steps(t) == SelectSeq(calls[t], IsStep)
StepNames == <<"new", "init", "update", "final">>

\* The return code logged for step `name`, 1 when the step was not reached.
RcOf(t, name) ==
    IF \E j \in 1 .. Len(calls[t]) : calls[t][j].fn = name
    THEN calls[t][CHOOSE j \in 1 .. Len(calls[t]) : calls[t][j].fn = name].rc
    ELSE 1

\* C3: on success the output is the ciphertext followed by the GCM tag, and
\* the value returned counts the tag.
C3_TagInOutput ==
    \A t \in Procs :
        (EncryptDone(t) /\ ret[t] # ErrorValue) =>
            /\ ciphertext[t] = Ciphertext(data[t], key[t], iv[t])
                                   \o Tag(data[t], key[t], iv[t])
            /\ ret[t] = Len(data[t]) + TagLen

\* C4: every failure is reported, nothing is retried. The steps attempted are
\* a prefix of new, init, update, final (each at most once); only the last
\* attempted step can have failed; the call returns -1 exactly when a step
\* failed and a length >= 0 exactly when all four succeeded.
C4_ErrorsReported ==
    \A t \in Procs :
        fn[t] = "encrypt" =>
            LET st == Steps(t)
                failed == \E j \in 1 .. Len(st) : st[j].rc # 1
            IN  /\ Len(st) <= 4
                /\ \A j \in 1 .. Len(st) : st[j].fn = StepNames[j]
                /\ \A j \in 1 .. Len(st) - 1 : st[j].rc = 1
                /\ pc[t] = "done" =>
                       /\ ret[t] = -1 <=> failed
                       /\ ret[t] >= 0 <=> (Len(st) = 4 /\ ~failed)

\* C4 witness: a call whose EncryptUpdate failed has returned -1.
C4_Witness ==
    \E t \in Procs :
        /\ EncryptDone(t)
        /\ ret[t] = -1
        /\ Len(Steps(t)) = 3
        /\ Steps(t)[3].rc = 0

\* C5: the context is released on every exit path. No call uses a context
\* that is not live; a call that has returned has freed its context exactly
\* once if EVP_CIPHER_CTX_new succeeded and never otherwise; the contexts
\* allocated are those of the calls in progress, so none remains once every
\* call has returned.
C5_CtxReleased ==
    /\ \A t \in Procs :
           fn[t] = "encrypt" =>
               LET log == calls[t]
                   frees == Len(SelectSeq(log, IsFree))
               IN  /\ \A j \in 1 .. Len(log) :
                          log[j].fn # "new" => log[j].ctx = "live"
                   /\ pc[t] = "done" =>
                          /\ frees = IF RcOf(t, "new") = 1 THEN 1 ELSE 0
                          /\ L(t).ctx = IF RcOf(t, "new") = 1 THEN "freed" ELSE "null"
    /\ nlive = Cardinality({t \in Procs :
                   pc[t] \in {"e_init", "e_update", "e_final", "e_free"}})

\* C5 witness: a call whose EncryptFinal failed has returned, its context
\* freed and no context left allocated.
C5_Witness ==
    \E t \in Procs :
        /\ EncryptDone(t)
        /\ RcOf(t, "final") = 0
        /\ L(t).ctx = "freed"
        /\ nlive = 0

\* C7: no state is shared between calls. Whatever the other threads do and
\* whatever was called before, a call that has returned has returned the
\* value and written the bytes that the same call yields when run alone.
C7_Stateless ==
    \A t \in Procs :
        /\ CompressDone(t) =>
               [ret |-> ret[t], out |-> compressed[t]] = ultra_compress(data[t])
        /\ EncryptDone(t) =>
               [ret |-> ret[t], out |-> ciphertext[t]] =
                   ultra_encrypt(data[t], key[t], iv[t], RcOf(t, "new") = 1,
                                 RcOf(t, "init"), RcOf(t, "update"),
                                 RcOf(t, "final"))

\* C7 witness: one thread has returned from ultra_compress on [0x41, 0x41]
\* while another is inside ultra_encrypt of one byte, between EncryptUpdate
\* and EncryptFinal.
C7_Witness ==
    \E t, u \in Procs :
        /\ t # u
        /\ CompressDone(t) /\ data[t] = <<65, 65>> /\ ret[t] = 3
        /\ pc[u] = "e_final" /\ Len(data[u]) = 1

====
